---------------------------- MODULE Spec2Model ----------------------------
(***************************************************************************)
(* Model of src/main.py: HabrScraper (fetch with retry, per-fragment       *)
(* extraction, keyword matching, date normalisation) and main().           *)
(*                                                                         *)
(* Strings are sequences of one-character strings.  The HTML document is   *)
(* represented by what BeautifulSoup's find/find_all/get/get_text return   *)
(* for it: a sequence of article fragments, each a record of the values    *)
(* the selectors of _parse_article_preview read.                           *)
(***************************************************************************)
EXTENDS Integers, Sequences, FiniteSets, TLC

VARIABLES
    pc,             \* position of the control flow
    kwArg,          \* the `keywords` argument of HabrScraper.__init__
    keywords,       \* self.keywords
    max_retries,    \* self.max_retries
    attempt,        \* loop variable of _get_page_with_retry
    outcomes,       \* every session.get made so far: whether it succeeded
                    \* and, if so, its response.text
    sleeps,         \* argument of every time.sleep made so far, in order
    html,           \* return value of _get_page_with_retry
    elements,       \* article_elements of find_articles
    idx,            \* loop variable i of find_articles (next fragment)
    results,        \* what _parse_article_preview returned, per fragment
    articles,       \* the list `articles` of find_articles / main
    printed,        \* print_articles has run
    saved,          \* save_to_file has written the file
    text,           \* argument of _find_keywords_with_regex
    found_keywords, \* return value of _find_keywords_with_regex
    date_elem,      \* the <time> element of a fragment (or none)
    formatted_date, \* return value of _parse_date
    padYear,        \* whether the platform's strftime zero-pads %Y
    href,           \* title_link.get('href', '')
    link            \* the link after line 167-168

vars == <<pc, kwArg, keywords, max_retries, attempt, outcomes, sleeps, html,
          elements, idx, results, articles, printed, saved, text,
          found_keywords, date_elem, formatted_date, padYear, href, link>>

-----------------------------------------------------------------------------
(* Bounds of the model *)

\* longest preview text enumerated for the keyword matcher
MaxTextLen == 4
\* longest href enumerated for the link resolution
MaxHrefLen == 5
\* largest max_retries a scraper is constructed with
MaxRetries == 4
\* most article fragments in a fetched document
MaxFragments == 2

-----------------------------------------------------------------------------
(* Characters and strings *)

\* all sequences over S of length lo..hi
SeqsOf(S, lo, hi) == UNION { [1..n -> S] : n \in lo..hi }

\* "".join / + on strings
Concat(ss) ==
    LET RECURSIVE cat(_)
        cat(i) == IF i > Len(ss) THEN <<>> ELSE ss[i] \o cat(i + 1)
    IN cat(1)

\* ' '.join(parts)
JoinSpace(parts) ==
    LET RECURSIVE j(_)
        j(i) == IF i > Len(parts) THEN <<>>
                ELSE IF i = 1 THEN parts[1] \o j(2)
                ELSE <<" ">> \o parts[i] \o j(i + 1)
    IN j(1)

\* str.startswith
StartsWith(s, p) == Len(s) >= Len(p) /\ SubSeq(s, 1, Len(p)) = p

\* str.lower() / re.IGNORECASE folding of one character
Lower(c) ==
    CASE c = "A" -> "a"
      [] c = "B" -> "b"
      [] c = "T" -> "t"
      [] c = "Z" -> "z"
      [] OTHER -> c

\* str.lower()
LowerStr(s) == [i \in 1..Len(s) |-> Lower(s[i])]

DigitChars == <<"0", "1", "2", "3", "4", "5", "6", "7", "8", "9">>

Digits == { DigitChars[i] : i \in 1..10 }

AlphaChars == {"a", "b", "c", "h", "p", "t", "x", "z", "A", "B", "T", "Z"}

\* the characters the regex class \w matches
WordChars == AlphaChars \cup Digits \cup {"_"}

\* the characters the regex class \s matches
SpaceChars == {" "}

-----------------------------------------------------------------------------
(* HabrScraper.__init__ and _find_keywords_with_regex *)

\* self.keywords = [kw.lower() for kw in keywords]
LowerKeywords(ks) == [i \in 1..Len(ks) |-> LowerStr(ks[i])]

\* \b at the position between t[p] and t[p+1] (0 = start, Len(t) = end)
WordBoundary(t, p) ==
    LET before == p >= 1 /\ t[p] \in WordChars
        after  == p + 1 <= Len(t) /\ t[p + 1] \in WordChars
    IN before # after

\* a variant without the \b anchors: a plain substring search
PatternSearch_NoBoundary(keyword, t) ==
    \E i \in 1..(Len(t) - Len(keyword) + 1) :
        \A j \in 1..Len(keyword) : Lower(t[i + j - 1]) = Lower(keyword[j])

\* re.compile(rf'\b{re.escape(keyword)}\b', re.IGNORECASE).search(t)
PatternSearch(keyword, t) ==
    \E i \in 1..(Len(t) - Len(keyword) + 1) :
        /\ WordBoundary(t, i - 1)
        /\ \A j \in 1..Len(keyword) : Lower(t[i + j - 1]) = Lower(keyword[j])
        /\ WordBoundary(t, i + Len(keyword) - 1)

\* _find_keywords_with_regex: self.keywords[i] for every pattern that matches
FindKeywordsWithRegex(ks, t) ==
    LET RECURSIVE scan(_)
        scan(i) == IF i > Len(ks) THEN <<>>
                   ELSE IF PatternSearch(ks[i], t) THEN <<ks[i]>> \o scan(i + 1)
                   ELSE scan(i + 1)
    IN scan(1)

-----------------------------------------------------------------------------
(* _parse_article_preview, lines 161-168: the link *)

HttpPrefix == <<"h", "t", "t", "p">>

\* 'https://habr.com'
BaseOrigin == <<"h", "t", "t", "p", "s", ":", "/", "/", "h", "a", "b", "r",
                ".", "c", "o", "m">>

\* if not link.startswith('http'): link = 'https://habr.com' + link
ResolveLink(l) == IF ~StartsWith(l, HttpPrefix) THEN BaseOrigin \o l ELSE l

-----------------------------------------------------------------------------
(* _parse_date *)

\* "Дата не найдена", the value returned when there is no date
DateNotFound == <<"D", "a", "t", "a", " ", "n", "e", " ", "n", "a", "i", "d",
                  "e", "n", "a">>

DigitVal(c) == (CHOOSE v \in 1..10 : DigitChars[v] = c) - 1

\* int() of a field's text; strptime's %d also takes a space-padded day
NumVal(t) ==
    LET RECURSIVE val(_, _)
        val(i, acc) == IF i > Len(t) THEN acc
                       ELSE IF t[i] \in Digits
                            THEN val(i + 1, acc * 10 + DigitVal(t[i]))
                            ELSE val(i + 1, acc)
    IN val(1, 0)

AllDigits(t) == \A i \in 1..Len(t) : t[i] \in Digits

\* the regular expression _strptime gives each directive
FieldMatches(dir, t) ==
    LET n == NumVal(t) IN
    CASE dir = "%Y" -> Len(t) = 4 /\ AllDigits(t)
      [] dir = "%m" -> \/ Len(t) \in {1, 2} /\ AllDigits(t) /\ n \in 1..12
      [] dir = "%d" -> \/ Len(t) \in {1, 2} /\ AllDigits(t) /\ n \in 1..31
                       \/ Len(t) = 2 /\ t[1] = " " /\ t[2] \in Digits /\ n >= 1
      [] dir = "%H" -> Len(t) \in {1, 2} /\ AllDigits(t) /\ n \in 0..23
      [] dir = "%M" -> Len(t) \in {1, 2} /\ AllDigits(t) /\ n \in 0..59
      [] dir = "%S" -> Len(t) \in {1, 2} /\ AllDigits(t) /\ n \in 0..61
      [] dir = "%f" -> Len(t) \in 1..6 /\ AllDigits(t)
      [] OTHER -> FALSE

Directives == {"%Y", "%m", "%d", "%H", "%M", "%S", "%f"}

\* the longest text a directive's regular expression matches
FieldMaxLen(dir) == IF dir = "%Y" THEN 4 ELSE IF dir = "%f" THEN 6 ELSE 2

IsLeap(y) == (y % 4 = 0 /\ y % 100 # 0) \/ y % 400 = 0

DaysInMonth(y, m) ==
    IF m = 2 THEN (IF IsLeap(y) THEN 29 ELSE 28)
    ELSE IF m \in {4, 6, 9, 11} THEN 30 ELSE 31

\* the datetime constructor's range checks on what strptime matched
ValidDateTime(p) ==
    /\ p.Y >= 1
    /\ p.d <= DaysInMonth(p.Y, p.m)
    /\ p.S <= 59

\* every way the format's regular expression (compiled with IGNORECASE, a
\* space standing for \s+) matches the whole of s, as the fields' values
RECURSIVE FormatMatches(_, _, _, _, _)
FormatMatches(s, i, fmt, j, acc) ==
    IF j > Len(fmt) THEN (IF i = Len(s) + 1 THEN {acc} ELSE {})
    ELSE LET tok == fmt[j] IN
         IF tok \in Directives
         THEN UNION { FormatMatches(s, i + n, fmt, j + 1,
                        IF tok = "%Y" THEN [acc EXCEPT !.Y = NumVal(SubSeq(s, i, i + n - 1))]
                        ELSE IF tok = "%m" THEN [acc EXCEPT !.m = NumVal(SubSeq(s, i, i + n - 1))]
                        ELSE IF tok = "%d" THEN [acc EXCEPT !.d = NumVal(SubSeq(s, i, i + n - 1))]
                        ELSE IF tok = "%S" THEN [acc EXCEPT !.S = NumVal(SubSeq(s, i, i + n - 1))]
                        ELSE acc)
                    : n \in { k \in 1..FieldMaxLen(tok) :
                                /\ i + k - 1 <= Len(s)
                                /\ FieldMatches(tok, SubSeq(s, i, i + k - 1)) } }
         ELSE IF tok \in SpaceChars
         THEN UNION { FormatMatches(s, i + n, fmt, j + 1, acc)
                    : n \in { k \in 1..(Len(s) - i + 1) :
                                \A q \in i..(i + k - 1) : s[q] \in SpaceChars } }
         ELSE IF i <= Len(s) /\ Lower(s[i]) = Lower(tok)
         THEN FormatMatches(s, i + 1, fmt, j + 1, acc)
         ELSE {}

\* datetime.strptime(s, fmt): <<parsed>>, or <<>> for ValueError
Strptime(s, fmt) ==
    LET ok == { p \in FormatMatches(s, 1, fmt, 1, [Y |-> 0, m |-> 0, d |-> 0, S |-> 0]) :
                  ValidDateTime(p) }
    IN IF ok = {} THEN <<>> ELSE <<CHOOSE p \in ok : TRUE>>

\* n in decimal, zero-padded to at least `width` characters
Decimal(n, width) ==
    LET RECURSIVE dec(_, _)
        dec(v, w) == IF v = 0 /\ w <= 0 THEN <<>>
                     ELSE dec(v \div 10, w - 1) \o <<DigitChars[(v % 10) + 1]>>
    IN dec(n, width)

\* parsed_date.strftime('%Y-%m-%d'); the C library decides whether a year
\* below 1000 is zero-padded
Strftime(p, pad) ==
    Decimal(p.Y, IF pad THEN 4 ELSE 1) \o <<"-">> \o Decimal(p.m, 2)
        \o <<"-">> \o Decimal(p.d, 2)

\* date_formats, line 119-124
date_formats == <<
    <<"%Y", "-", "%m", "-", "%d", "T", "%H", ":", "%M", ":", "%S", ".", "%f", "Z">>,
    <<"%Y", "-", "%m", "-", "%d", "T", "%H", ":", "%M", ":", "%S", "Z">>,
    <<"%Y", "-", "%m", "-", "%d", " ", "%H", ":", "%M", ":", "%S">>,
    <<"%Y", "-", "%m", "-", "%d">> >>

\* a variant that gives the sentinel when no format matched
DateFallback_Sentinel(date_str) == DateNotFound

\* what remains of _parse_date when no format matched, line 134
DateFallback(date_str) ==
    IF Len(date_str) >= 10 THEN SubSeq(date_str, 1, 10) ELSE date_str

\* _parse_date
ParseDate(date_str, pad) ==
    IF date_str = <<>> THEN DateNotFound
    ELSE LET RECURSIVE try(_)
             try(k) == IF k > Len(date_formats) THEN DateFallback(date_str)
                       ELSE LET r == Strptime(date_str, date_formats[k])
                            IN IF r # <<>> THEN Strftime(r[1], pad) ELSE try(k + 1)
         IN try(1)

\* lines 171-172: date_element.get('datetime', '') if date_element else ''
DateStr(e) == IF e.present /\ e.hasAttr THEN e.datetime ELSE <<>>

-----------------------------------------------------------------------------
(* _parse_article_preview *)

\* a fragment: what the selectors of _parse_article_preview find in one
\* <article class="tm-articles-list__item">.  `raises` stands for a call
\* inside the try block throwing.
Fragment(h2, a, span, spanText, linkText, hasHref, hr, time, parts, fullText, raises) ==
    [h2 |-> h2, a |-> a, span |-> span, spanText |-> spanText,
     linkText |-> linkText, hasHref |-> hasHref, href |-> hr, time |-> time,
     parts |-> parts, fullText |-> fullText, raises |-> raises]

TimeElem(present, hasAttr, datetime) ==
    [present |-> present, hasAttr |-> hasAttr, datetime |-> datetime]

NoTime == TimeElem(FALSE, FALSE, <<>>)

\* lines 155-156: the span's text if there is a span, else the link's text
TitleOf(f) == IF f.span THEN f.spanText ELSE f.linkText

\* line 161: title_link.get('href', '')
HrefOf(f) == IF f.hasHref THEN f.href ELSE <<>>

\* lines 176-220: title, the non-empty lead/body/tag/hub/author texts, then
\* the fragment's full text, joined by single spaces
PreviewText(f) ==
    JoinSpace(<<TitleOf(f)>> \o SelectSeq(f.parts, LAMBDA t : t # <<>>)
              \o <<f.fullText>>)

\* the article lines 231-237 build
MakeArticle(f, ks, pad) ==
    [title |-> TitleOf(f),
     link |-> ResolveLink(HrefOf(f)),
     date |-> ParseDate(DateStr(f.time), pad),
     preview_text |-> PreviewText(f),
     found_keywords |-> FindKeywordsWithRegex(ks, PreviewText(f))]

\* a variant without the try/except around the extraction
ParseArticlePreview_NoExcept(f, ks, pad) ==
    IF f.raises THEN [raised |-> TRUE, value |-> <<>>]
    ELSE IF ~f.h2 \/ ~f.a \/ TitleOf(f) = <<>> \/ HrefOf(f) = <<>>
    THEN [raised |-> FALSE, value |-> <<>>]
    ELSE IF FindKeywordsWithRegex(ks, PreviewText(f)) = <<>>
    THEN [raised |-> FALSE, value |-> <<>>]
    ELSE [raised |-> FALSE, value |-> <<MakeArticle(f, ks, pad)>>]

\* a variant without the `if not title` check of lines 157-159
ParseArticlePreview_NoTitleCheck(f, ks, pad) ==
    IF f.raises \/ ~f.h2 \/ ~f.a \/ HrefOf(f) = <<>>
    THEN [raised |-> FALSE, value |-> <<>>]
    ELSE IF FindKeywordsWithRegex(ks, PreviewText(f)) = <<>>
    THEN [raised |-> FALSE, value |-> <<>>]
    ELSE [raised |-> FALSE, value |-> <<MakeArticle(f, ks, pad)>>]

\* _parse_article_preview: `value` is <<>> for None, <<article>> otherwise;
\* `raised` says whether an exception leaves the method
ParseArticlePreview(f, ks, pad) ==
    IF f.raises THEN [raised |-> FALSE, value |-> <<>>]
    ELSE IF ~f.h2 THEN [raised |-> FALSE, value |-> <<>>]
    ELSE IF ~f.a THEN [raised |-> FALSE, value |-> <<>>]
    ELSE IF TitleOf(f) = <<>> THEN [raised |-> FALSE, value |-> <<>>]
    ELSE IF HrefOf(f) = <<>> THEN [raised |-> FALSE, value |-> <<>>]
    ELSE LET found == FindKeywordsWithRegex(ks, PreviewText(f)) IN
         IF found = <<>> THEN [raised |-> FALSE, value |-> <<>>]
         ELSE [raised |-> FALSE, value |-> <<MakeArticle(f, ks, pad)>>]

-----------------------------------------------------------------------------
(* _get_page_with_retry, save_to_file *)

\* response.text: whether it is non-empty, and the article fragments
\* BeautifulSoup finds in it
Body(nonempty, frags) == [nonempty |-> nonempty, frags |-> frags]

\* ""
EmptyString == Body(FALSE, <<>>)

\* None: what a function returns when it ends without a return statement
NoneValue == [nonempty |-> FALSE, frags |-> <<>>, none |-> TRUE]

Pow2(n) == LET RECURSIVE p(_)
               p(k) == IF k = 0 THEN 1 ELSE 2 * p(k - 1)
           IN p(n)

\* a variant that tests `attempt < self.max_retries`: it never gives up
OnRequestException_OffByOne(att, n) ==
    IF att < n THEN [sleep |-> <<Pow2(att)>>, ret |-> <<>>]
    ELSE [sleep |-> <<>>, ret |-> <<EmptyString>>]

\* a variant that waits 2 * attempt
OnRequestException_LinearWait(att, n) ==
    IF att < n - 1 THEN [sleep |-> <<2 * att>>, ret |-> <<>>]
    ELSE [sleep |-> <<>>, ret |-> <<EmptyString>>]

\* a variant that sleeps before giving up as well
OnRequestException_SleepAfterLast(att, n) ==
    IF att < n - 1 THEN [sleep |-> <<Pow2(att)>>, ret |-> <<>>]
    ELSE [sleep |-> <<Pow2(att)>>, ret |-> <<EmptyString>>]

\* the except branch, lines 91-99: what is slept, and what is returned
\* (<<>> when the loop goes on)
OnRequestException(att, n) ==
    IF att < n - 1 THEN [sleep |-> <<Pow2(att)>>, ret |-> <<>>]
    ELSE [sleep |-> <<>>, ret |-> <<EmptyString>>]

\* a variant without the try/except around the write
SaveToFile_NoExcept(writeFails) == [raised |-> writeFails, written |-> ~writeFails]

\* save_to_file: whether the file was written, and whether an exception
\* leaves the method
SaveToFile(writeFails) == [raised |-> FALSE, written |-> ~writeFails]

-----------------------------------------------------------------------------
(* Inputs of the program run *)

\* keyword lists a scraper is constructed with (main passes KEYWORDS)
KeywordLists ==
    { << <<"a">>, <<"b">> >>,
      << <<"B">>, <<"b">> >>,
      << <<"a", "b">> >> }

GoodSpan ==
    Fragment(TRUE, TRUE, TRUE, <<"a">>, <<"c">>, TRUE, <<"/", "p">>,
             TimeElem(TRUE, TRUE, <<"2", "0", "2", "4", "-", "0", "1", "-", "0", "5",
                                    "T", "1", "0", ":", "0", "0", ":", "0", "0", "Z">>),
             <<>>, <<"a", " ", "b">>, FALSE)

GoodNoSpan ==
    Fragment(TRUE, TRUE, FALSE, <<>>, <<"B">>, TRUE, <<"h", "t", "t", "p", ":", "/">>,
             NoTime, << <<>>, <<"a", "b">> >>, <<"B", "a", "b">>, FALSE)

\* article fragments a fetched page is made of
Fragments ==
    { GoodSpan,
      GoodNoSpan,
      [GoodSpan EXCEPT !.time = TimeElem(TRUE, TRUE, <<"c", "x">>)],
      [GoodSpan EXCEPT !.h2 = FALSE],
      [GoodSpan EXCEPT !.a = FALSE],
      [GoodSpan EXCEPT !.spanText = <<>>],
      [GoodSpan EXCEPT !.hasHref = FALSE],
      [GoodSpan EXCEPT !.href = <<>>],
      [GoodSpan EXCEPT !.raises = TRUE] }

\* response.text of a successful response: the empty string, or a page
ResponseBodies ==
    {EmptyString} \cup { Body(TRUE, fs) : fs \in SeqsOf(Fragments, 0, MaxFragments) }

-----------------------------------------------------------------------------
(* The program run: main() *)

\* the variables only the function-level specifications use
FunctionVarsIdle ==
    /\ text = <<>>
    /\ found_keywords = <<>>
    /\ date_elem = NoTime
    /\ formatted_date = <<>>
    /\ href = <<>>
    /\ link = <<>>

\* the variables only the program run uses
RunVarsIdle ==
    /\ max_retries = 0
    /\ attempt = 0
    /\ outcomes = <<>>
    /\ sleeps = <<>>
    /\ html = EmptyString
    /\ elements = <<>>
    /\ idx = 0
    /\ results = <<>>
    /\ articles = <<>>
    /\ printed = FALSE
    /\ saved = FALSE

\* scraper = HabrScraper(keywords, max_retries); find_articles is entered
Init ==
    /\ pc = "fetch"
    /\ kwArg \in KeywordLists
    /\ keywords = LowerKeywords(kwArg)
    /\ max_retries \in 1..MaxRetries
    /\ padYear \in BOOLEAN
    /\ attempt = 0
    /\ outcomes = <<>>
    /\ sleeps = <<>>
    /\ html = EmptyString
    /\ elements = <<>>
    /\ idx = 0
    /\ results = <<>>
    /\ articles = <<>>
    /\ printed = FALSE
    /\ saved = FALSE
    /\ FunctionVarsIdle

FunctionVarsUnchanged ==
    UNCHANGED <<kwArg, keywords, max_retries, padYear, text, found_keywords,
                date_elem, formatted_date, href, link>>

\* _get_page_with_retry, lines 79-89: the attempt succeeds
AttemptOk ==
    /\ pc = "fetch"
    /\ attempt < max_retries
    /\ \E body \in ResponseBodies :
          /\ html' = body
          /\ outcomes' = Append(outcomes, [ok |-> TRUE, text |-> body])
          /\ pc' = "fetched"
    /\ UNCHANGED <<attempt, sleeps, elements, idx, results, articles, printed, saved>>
    /\ FunctionVarsUnchanged

\* _get_page_with_retry, lines 91-99: the attempt raises RequestException
AttemptFail ==
    /\ pc = "fetch"
    /\ attempt < max_retries
    /\ outcomes' = Append(outcomes, [ok |-> FALSE, text |-> EmptyString])
    /\ LET r == OnRequestException(attempt, max_retries) IN
          /\ sleeps' = sleeps \o r.sleep
          /\ IF r.ret = <<>>
             THEN /\ attempt' = attempt + 1
                  /\ pc' = IF attempt + 1 < max_retries THEN "fetch" ELSE "fetched"
                  /\ html' = IF attempt + 1 < max_retries THEN html ELSE NoneValue
             ELSE /\ attempt' = attempt
                  /\ pc' = "fetched"
                  /\ html' = r.ret[1]
    /\ UNCHANGED <<elements, idx, results, articles, printed, saved>>
    /\ FunctionVarsUnchanged

\* find_articles, lines 249-258
CheckHtml ==
    /\ pc = "fetched"
    /\ IF ~html.nonempty
       THEN /\ articles' = <<>>
            /\ pc' = "print"
            /\ UNCHANGED <<elements, idx>>
       ELSE /\ elements' = html.frags
            /\ idx' = 1
            /\ articles' = <<>>
            /\ pc' = "loop"
    /\ UNCHANGED <<attempt, outcomes, sleeps, html, results, printed, saved>>
    /\ FunctionVarsUnchanged

\* line 260: the for loop has a fragment left
InLoopBody == pc = "loop" /\ idx <= Len(elements)

\* find_articles, lines 260-264: one iteration of the loop
ParseOne ==
    /\ InLoopBody
    /\ LET r == ParseArticlePreview(elements[idx], keywords, padYear) IN
          IF r.raised
          THEN /\ pc' = "crashed"
               /\ UNCHANGED <<idx, results, articles>>
          ELSE /\ results' = Append(results, r.value)
               /\ articles' = articles \o r.value
               /\ idx' = idx + 1
               /\ pc' = "loop"
    /\ UNCHANGED <<attempt, outcomes, sleeps, html, elements, printed, saved>>
    /\ FunctionVarsUnchanged

\* find_articles, lines 266-267: the loop is over, the list is returned
LoopEnd ==
    /\ pc = "loop"
    /\ idx > Len(elements)
    /\ pc' = "print"
    /\ UNCHANGED <<attempt, outcomes, sleeps, html, elements, idx, results,
                   articles, printed, saved>>
    /\ FunctionVarsUnchanged

\* main, line 319: print_articles
PrintArticles ==
    /\ pc = "print"
    /\ printed' = TRUE
    /\ pc' = "save"
    /\ UNCHANGED <<attempt, outcomes, sleeps, html, elements, idx, results,
                   articles, saved>>
    /\ FunctionVarsUnchanged

\* main, lines 320-322: save_to_file, then "Программа завершена"
SaveAndFinish ==
    /\ pc = "save"
    /\ \E writeFails \in BOOLEAN :
          LET r == SaveToFile(writeFails) IN
          IF r.raised
          THEN pc' = "crashed" /\ saved' = saved
          ELSE pc' = "done" /\ saved' = r.written
    /\ UNCHANGED <<attempt, outcomes, sleeps, html, elements, idx, results,
                   articles, printed>>
    /\ FunctionVarsUnchanged

Next ==
    \/ AttemptOk
    \/ AttemptFail
    \/ CheckHtml
    \/ ParseOne
    \/ LoopEnd
    \/ PrintArticles
    \/ SaveAndFinish

Spec == Init /\ [][Next]_vars

-----------------------------------------------------------------------------
(* _find_keywords_with_regex on its own: every keyword list and text *)

\* keywords are words: non-empty strings of \w characters
KeywordWords == SeqsOf({"a", "A", "b"}, 1, 2)

AllKeywordLists == SeqsOf(KeywordWords, 0, 2)

Texts == SeqsOf({"a", "A", "b", " "}, 0, MaxTextLen)

InitKw ==
    /\ pc = "find_keywords"
    /\ kwArg \in AllKeywordLists
    /\ keywords = LowerKeywords(kwArg)
    /\ text \in Texts
    /\ found_keywords = <<>>
    /\ padYear = TRUE
    /\ date_elem = NoTime
    /\ formatted_date = <<>>
    /\ href = <<>>
    /\ link = <<>>
    /\ RunVarsIdle

\* found_keywords = self._find_keywords_with_regex(preview_text)
FindKeywords ==
    /\ pc = "find_keywords"
    /\ found_keywords' = FindKeywordsWithRegex(keywords, text)
    /\ pc' = "found_keywords"
    /\ UNCHANGED <<kwArg, keywords, max_retries, attempt, outcomes, sleeps, html,
                   elements, idx, results, articles, printed, saved, text,
                   date_elem, formatted_date, padYear, href, link>>

SpecKw == InitKw /\ [][FindKeywords]_vars

-----------------------------------------------------------------------------
(* _parse_date on its own: lines 171-173 for every <time> element *)

DateYears == { <<"2", "0", "2", "4">>, <<"2", "0", "2", "3">>, <<"0", "9", "9", "9">>,
               <<"0", "0", "0", "0">>, <<"2", "4">> }

DateMonths == { <<"1">>, <<"0", "2">>, <<"1", "2">>, <<"1", "3">>, <<"0", "0">> }

DateDays == { <<"5">>, <<"0", "5">>, <<"2", "9">>, <<"3", "0">>, <<"3", "1">>,
              <<" ", "5">>, <<"0", "0">> }

DateTails ==
    { <<>>,
      <<"T", "1", "0", ":", "0", "0", ":", "0", "0", "Z">>,
      <<"T", "1", "0", ":", "0", "0", ":", "0", "0", ".", "5", "Z">>,
      <<"t", "1", ":", "2", ":", "3", "z">>,
      <<" ", "1", "0", ":", "0", "0", ":", "0", "0">>,
      <<" ", " ", "1", "0", ":", "0", "0", ":", "0", "0">>,
      <<"T", "2", "4", ":", "0", "0", ":", "0", "0", "Z">>,
      <<"T", "1", "0", ":", "0", "0", ":", "6", "0", "Z">>,
      <<"T", "1", "0", ":", "0", "0", ":", "0", "0">>,
      <<"x">> }

\* values of the datetime attribute
DateStrings ==
    { <<>>, <<"x">>, <<"c", "x", "c", "x", "c", "x", "c", "x", "c", "x", "c", "x">> }
    \cup { y \o <<"-">> \o m \o <<"-">> \o d \o t :
             y \in DateYears, m \in DateMonths, d \in DateDays, t \in DateTails }

TimeElems ==
    {NoTime, TimeElem(TRUE, FALSE, <<>>)}
    \cup { TimeElem(TRUE, TRUE, ds) : ds \in DateStrings }

InitDate ==
    /\ pc = "parse_date"
    /\ date_elem \in TimeElems
    /\ padYear \in BOOLEAN
    /\ formatted_date = <<>>
    /\ kwArg = <<>>
    /\ keywords = <<>>
    /\ text = <<>>
    /\ found_keywords = <<>>
    /\ href = <<>>
    /\ link = <<>>
    /\ RunVarsIdle

\* formatted_date = self._parse_date(date_str)
FormatDate ==
    /\ pc = "parse_date"
    /\ formatted_date' = ParseDate(DateStr(date_elem), padYear)
    /\ pc' = "parsed_date"
    /\ UNCHANGED <<kwArg, keywords, max_retries, attempt, outcomes, sleeps, html,
                   elements, idx, results, articles, printed, saved, text,
                   found_keywords, date_elem, padYear, href, link>>

SpecDate == InitDate /\ [][FormatDate]_vars

-----------------------------------------------------------------------------
(* lines 161-168 on their own: every non-empty href *)

Hrefs == SeqsOf({"h", "t", "p", ":", "/"}, 1, MaxHrefLen)

InitLink ==
    /\ pc = "resolve_link"
    /\ href \in Hrefs
    /\ link = <<>>
    /\ kwArg = <<>>
    /\ keywords = <<>>
    /\ text = <<>>
    /\ found_keywords = <<>>
    /\ padYear = TRUE
    /\ date_elem = NoTime
    /\ formatted_date = <<>>
    /\ RunVarsIdle

\* link = title_link.get('href', ''), made absolute
MakeLink ==
    /\ pc = "resolve_link"
    /\ link' = ResolveLink(href)
    /\ pc' = "resolved_link"
    /\ UNCHANGED <<kwArg, keywords, max_retries, attempt, outcomes, sleeps, html,
                   elements, idx, results, articles, printed, saved, text,
                   found_keywords, date_elem, formatted_date, padYear, href>>

SpecLink == InitLink /\ [][MakeLink]_vars

-----------------------------------------------------------------------------
(* Properties of _get_page_with_retry *)

\* max_retries: int = 3
DefaultMaxRetries == 3

SumSeq(q) ==
    LET RECURSIVE sum(_)
        sum(i) == IF i > Len(q) THEN 0 ELSE q[i] + sum(i + 1)
    IN sum(1)

\* _get_page_with_retry has returned
FetchReturned == pc \in {"fetched", "loop", "print", "save", "done"}

AllFailed(n) == Len(outcomes) >= n /\ \A i \in 1..n : ~outcomes[i].ok

LastOk == outcomes # <<>> /\ outcomes[Len(outcomes)].ok

\* the part of C1 that the code keeps: at most N attempts, none after a
\* success, the successful attempt's body returned, "" after N failures
FetchContract ==
    /\ Len(outcomes) <= max_retries
    /\ \A i \in 1..(Len(outcomes) - 1) : ~outcomes[i].ok
    /\ FetchReturned =>
          /\ outcomes # <<>>
          /\ LastOk => html = outcomes[Len(outcomes)].text
          /\ ~LastOk => Len(outcomes) = max_retries /\ html = EmptyString

\* C1, as stated: fetch makes at most N attempts, stops at the first
\* success and returns its body, and returns the empty string exactly
\* when all N attempts fail.
C1_AsStated ==
    /\ FetchContract
    /\ FetchReturned => (html = EmptyString <=> AllFailed(max_retries))

\* C1, amended: fetch makes at most N attempts, stops at the first success
\* and returns its body; it returns the empty string whenever all N
\* attempts fail, and otherwise only when the successful attempt's body is
\* itself empty.
C1_EmptyOnExhaustionOrEmptyBody ==
    /\ FetchContract
    /\ FetchReturned =>
          /\ AllFailed(max_retries) => html = EmptyString
          /\ html = EmptyString =>
                \/ AllFailed(max_retries)
                \/ LastOk /\ outcomes[Len(outcomes)].text = EmptyString

C1_Witness ==
    /\ pc = "fetched"
    /\ max_retries >= 2
    /\ AllFailed(max_retries)
    /\ html = EmptyString

\* C2, as stated: with the default of 3 attempts, 3 failed attempts are
\* followed by a successful one whose body is returned, after sleeping
\* 1 + 2 + 4 = 7 in total.
C2_AsStated ==
    (FetchReturned /\ max_retries = DefaultMaxRetries /\ AllFailed(3)) =>
        /\ Len(outcomes) = 4
        /\ outcomes[4].ok
        /\ html = outcomes[4].text
        /\ SumSeq(sleeps) = 7

\* C2, amended: with the default of 3 attempts, after 3 failed attempts no
\* fourth attempt is made: fetch returns the empty string and has slept
\* 1 + 2 = 3 in total; a body is returned only for a success among the
\* first 3 attempts (after 2 failures: having slept 1 + 2 = 3).
C2_ThreeFailuresExhaust ==
    (FetchReturned /\ max_retries = DefaultMaxRetries) =>
        /\ Len(outcomes) <= 3
        /\ AllFailed(3) => html = EmptyString /\ sleeps = <<1, 2>>
        /\ (AllFailed(2) /\ LastOk) =>
              /\ Len(outcomes) = 3
              /\ html = outcomes[3].text
              /\ sleeps = <<1, 2>>

C2_Witness ==
    /\ pc = "fetched"
    /\ max_retries = DefaultMaxRetries
    /\ AllFailed(3)
    /\ SumSeq(sleeps) = 3

\* C9: the fetcher sleeps only between attempts: 2^i after failed attempt i
\* (from 0) when i < N-1, never after a success or the last failure; the
\* total is 2^k - 1 before a success on attempt k, 2^(N-1) - 1 on exhaustion.
C9_BackoffBetweenAttempts ==
    /\ \A i \in 1..Len(sleeps) : sleeps[i] = 2^(i - 1)
    /\ pc = "fetch" => Len(sleeps) = Len(outcomes)
    /\ (FetchReturned /\ LastOk) =>
          /\ Len(sleeps) = Len(outcomes) - 1
          /\ SumSeq(sleeps) = 2^(Len(outcomes) - 1) - 1
    /\ (FetchReturned /\ ~LastOk) =>
          /\ Len(sleeps) = max_retries - 1
          /\ SumSeq(sleeps) = 2^(max_retries - 1) - 1

C9_Witness ==
    /\ pc = "fetched"
    /\ max_retries >= 4
    /\ Len(outcomes) = 3
    /\ LastOk
    /\ sleeps = <<1, 2>>

-----------------------------------------------------------------------------
(* Properties of the extraction and of the whole run *)

\* the maximal runs of \w characters of t, as (first, last) positions
WordSpans(t) ==
    { sp \in (1..Len(t)) \X (1..Len(t)) :
        /\ sp[1] <= sp[2]
        /\ \A q \in sp[1]..sp[2] : t[q] \in WordChars
        /\ sp[1] = 1 \/ t[sp[1] - 1] \notin WordChars
        /\ sp[2] = Len(t) \/ t[sp[2] + 1] \notin WordChars }

\* k is, up to letter case, one of the words of t
OccursAsWholeWord(k, t) ==
    \E sp \in WordSpans(t) : LowerStr(SubSeq(t, sp[1], sp[2])) = LowerStr(k)

\* the fragment has everything a record needs
Passes(f, ks) ==
    /\ ~f.raises
    /\ f.h2
    /\ f.a
    /\ (IF f.span THEN f.spanText ELSE f.linkText) # <<>>
    /\ f.hasHref
    /\ f.href # <<>>
    /\ \E i \in 1..Len(ks) : OccursAsWholeWord(ks[i], PreviewText(f))

Exhausted == FetchReturned /\ AllFailed(max_retries)

\* the order of the positions of main()
Rank(p) ==
    CASE p = "fetch" -> 0
      [] p = "fetched" -> 1
      [] p = "loop" -> 2
      [] p = "print" -> 3
      [] p = "save" -> 4
      [] p = "done" -> 5
      [] OTHER -> 6

\* a step moves to a later position, or on to the next attempt of the
\* bounded retry loop, or on to the next fragment of the extraction loop
StepsForward ==
    \/ Rank(pc') > Rank(pc)
    \/ pc = "fetch" /\ pc' = "fetch" /\ attempt' = attempt + 1 /\ attempt' < max_retries
    \/ pc = "loop" /\ pc' = "loop" /\ idx' = idx + 1 /\ idx' <= Len(elements) + 1

\* every step but the loop body, which takes a step whenever the loop has
\* a fragment left
NextButParseOne ==
    AttemptOk \/ AttemptFail \/ CheckHtml \/ LoopEnd \/ PrintArticles \/ SaveAndFinish

\* C3: whatever fails (every fetch attempt, fragments, the date, the file
\* write), the run is never ended by an uncaught error: it reaches the
\* final "program finished" step, after the reporter's steps (no position
\* before the end is stuck, and every step moves forward through the
\* finitely many positions, attempts and fragments); and when the fetch is
\* exhausted nothing is extracted and the reporter gets no record.
C3_RunAlwaysFinishes ==
    /\ [](pc # "crashed")
    /\ [](pc = "done" \/ InLoopBody \/ ENABLED NextButParseOne)
    /\ [][StepsForward]_vars
    /\ [](pc = "done" => printed)
    /\ []((Exhausted /\ pc # "fetched") =>
            /\ pc \in {"print", "save", "done"}
            /\ idx = 0
            /\ results = <<>>
            /\ articles = <<>>)

C3_Witness ==
    /\ pc = "done"
    /\ Exhausted
    /\ printed
    /\ ~saved

\* the extraction loop is over
Extracted == pc \in {"print", "save", "done"} /\ html.nonempty

\* C10: every fragment is processed exactly once, in document order; the
\* records returned are those of the fragments that pass every mandatory
\* step and match a keyword, in the fragments' order; a failing fragment
\* (also one whose extraction throws) is skipped and the later ones are
\* still processed; no fragment gives the empty list.
C10_RecordsFollowFragments ==
    /\ pc # "crashed"
    /\ pc = "loop" => Len(results) = idx - 1 /\ idx <= Len(elements) + 1
    /\ Extracted =>
          /\ elements = html.frags
          /\ Len(results) = Len(elements)
          /\ \A i \in 1..Len(elements) :
                IF Passes(elements[i], keywords)
                THEN /\ Len(results[i]) = 1
                     /\ results[i][1].title = TitleOf(elements[i])
                     /\ results[i][1].preview_text = PreviewText(elements[i])
                ELSE results[i] = <<>>
          /\ articles = Concat(results)
          /\ elements = <<>> => articles = <<>>

C10_Witness ==
    /\ pc = "done"
    /\ Len(elements) = 2
    /\ elements[1].raises
    /\ results[1] = <<>>
    /\ Len(articles) = 1
    /\ articles[1].title = TitleOf(elements[2])

\* C6: every record has a non-empty matchedKeywords, title and link; a
\* fragment without title container, without title link, with an empty
\* title, with a missing or empty href, or with no keyword match gives no
\* record.
C6_RecordsAreComplete ==
    /\ \A i \in 1..Len(articles) :
          /\ articles[i].found_keywords # <<>>
          /\ articles[i].title # <<>>
          /\ articles[i].link # <<>>
    /\ \A i \in 1..Len(results) :
          LET f == elements[i] IN
          (\/ ~f.h2
           \/ ~f.a
           \/ (f.span /\ f.spanText = <<>>)
           \/ (~f.span /\ f.linkText = <<>>)
           \/ ~f.hasHref
           \/ f.href = <<>>
           \/ \A k \in 1..Len(keywords) :
                 ~OccursAsWholeWord(keywords[k], PreviewText(f)))
          => results[i] = <<>>

C6_Witness ==
    /\ pc = "done"
    /\ Len(results) = 2
    /\ ~elements[1].hasHref
    /\ results[1] = <<>>
    /\ Len(articles) = 1
    /\ articles[1].link = BaseOrigin \o <<"/", "p">>
    /\ articles[1].found_keywords = << <<"b">>, <<"b">> >>

-----------------------------------------------------------------------------
(* Properties of _find_keywords_with_regex *)

\* q is p with some elements left out
RECURSIVE IsSubsequence(_, _)
IsSubsequence(q, p) ==
    IF q = <<>> THEN TRUE
    ELSE IF p = <<>> THEN FALSE
    ELSE IF Head(q) = Head(p) THEN IsSubsequence(Tail(q), Tail(p))
    ELSE IsSubsequence(q, Tail(p))

NoWordOccurs == \A i \in 1..Len(kwArg) : ~OccursAsWholeWord(kwArg[i], text)

C5_NoKeywordTwice ==
    \A i, j \in 1..Len(found_keywords) :
        found_keywords[i] = found_keywords[j] => i = j

-----------------------------------------------------------------------------
(* Properties of the date and of the link *)

IsIsoDate(d) ==
    /\ Len(d) = 10
    /\ \A i \in {1, 2, 3, 4, 6, 7, 9, 10} : d[i] \in Digits
    /\ d[5] = "-"
    /\ d[8] = "-"

\* d with zeros put in front up to 10 characters
ZeroFilled(d) == [i \in 1..(10 - Len(d)) |-> "0"] \o d

MatchesAFormat(ds) == \E k \in 1..Len(date_formats) : Strptime(ds, date_formats[k]) # <<>>

\* the year strptime reads: the first four characters
YearOf(ds) == NumVal(SubSeq(ds, 1, 4))

\* C7, as stated: the date of a record is YYYY-MM-DD or the sentinel; a
\* non-empty datetime that matches none of the four formats gives the
\* sentinel.
C7_AsStated ==
    pc = "parsed_date" =>
        /\ IsIsoDate(formatted_date) \/ formatted_date = DateNotFound
        /\ (DateStr(date_elem) # <<>> /\ ~MatchesAFormat(DateStr(date_elem)))
              => formatted_date = DateNotFound

\* C7, amended: the date of a record is the sentinel when there is no
\* datetime value or it is empty; YYYY-MM-DD when the value matches one of
\* the four formats (where the platform's strftime does not zero-pad, a
\* year below 1000 loses its leading zeros); and otherwise, for a non-empty
\* value that matches no format, the value's first 10 characters, or the
\* whole value if it is shorter.
C7_DateOrSentinelOrPrefix ==
    pc = "parsed_date" =>
        LET ds == DateStr(date_elem) IN
        IF ds = <<>> THEN formatted_date = DateNotFound
        ELSE IF MatchesAFormat(ds)
        THEN /\ formatted_date # DateNotFound
             /\ IF padYear \/ YearOf(ds) >= 1000
                THEN IsIsoDate(formatted_date)
                ELSE Len(formatted_date) < 10 /\ IsIsoDate(ZeroFilled(formatted_date))
        ELSE /\ formatted_date # DateNotFound
             /\ Len(formatted_date) = (IF Len(ds) < 10 THEN Len(ds) ELSE 10)
             /\ \A i \in 1..Len(formatted_date) : formatted_date[i] = ds[i]

C7_Witness ==
    /\ pc = "parsed_date"
    /\ date_elem = TimeElem(TRUE, TRUE, <<"x">>)
    /\ formatted_date = <<"x">>

\* RFC 3986: scheme = ALPHA *( ALPHA / DIGIT / "+" / "-" / "." ) ":"
StartsWithScheme(h) ==
    \E k \in 2..Len(h) :
        /\ h[k] = ":"
        /\ h[1] \in AlphaChars
        /\ \A q \in 2..(k - 1) : h[q] \in AlphaChars \cup Digits \cup {"+", "-", "."}

\* C8: an href that starts with a URI scheme is kept as it is, and every
\* href that does not gets 'https://habr.com' put in front.
C8_SchemeDecidesPrefix ==
    pc = "resolved_link" =>
        IF StartsWithScheme(href) THEN link = href ELSE link = BaseOrigin \o href

=============================================================================
